---- MODULE Spec2Model ----
(***************************************************************************)
(* The buffered file reader (HandleFileReader), the line index (FileLines) *)
(* and the loading logic of SourceView, from src/gui/Src/Gui/SourceView.cpp *)
(*                                                                         *)
(* Machine words are scaled: uint64_t and size_t (x64 build, both 64 bit)  *)
(* are WordBits wide, so that offsets close to the top of the range, where *)
(* index + size wraps, are part of the inputs.  The 10 MiB scan buffer of  *)
(* FileLines::parse is scaled with the file lengths (ParseBufferSize), so  *)
(* that files smaller and larger than the buffer both occur.               *)
(***************************************************************************)
EXTENDS Integers, Sequences, FiniteSets, TLC

\* ------------------------------------------------------------ bounds
MaxFileLen == 3
WordBits == 3
ParseBufferSize == 2
MaxParses == 2
MaxIoFaults == 1

\* ------------------------------------------------------------ bytes
LF == 10
CR == 13
NUL == 0
Ordinary == {97}
Byte == {LF, CR} \cup Ordinary
\* What a char read outside mBuffer may hold: a choice of two values per byte
\* stands for the 256.
JunkByte == Ordinary \cup {NUL}

W == 2 ^ WordBits
Wrap(x) == x % W
Min(a, b) == IF a < b THEN a ELSE b

Files == UNION {[1 .. n -> Byte] : n \in 0 .. MaxFileLen}
Zeros(n) == [k \in 1 .. n |-> NUL]

VARIABLES
    file,          \* the bytes of the file on disk
    mSourcePath,   \* SourceView::mSourcePath: "" or a path
    mFileLines,    \* SourceView::mFileLines: "nullptr" or "FileLines"
    mLines,        \* FileLines::mLines, the offset table
    mReader,       \* FileLines::mReader: <<>> (null) or <<the HandleFileReader>>
    parses,        \* parse() calls on the current FileLines object that ran the scan
    parsed,        \* what its most recent parse() returned: "never", "ok", "failed"
    ioFaults,      \* system calls of the current reader that the environment failed
    ret            \* the last call: its arguments and what it returned

vars == <<file, mSourcePath, mFileLines, mLines, mReader, parses, parsed, ioFaults, ret>>

\* op: the call; index, size: its arguments; ok: what it returned; out: the
\* bytes or text it delivered; io: "none", "ok" or "fail", the system calls
\* it made; path: the branch of read taken; fault: "none", or the undefined
\* behaviour or exception it ran into.
Ret(op, index, size, ok, out, io, path, fault) ==
    [op |-> op, index |-> index, size |-> size, ok |-> ok, out |-> out,
     io |-> io, path |-> path, fault |-> fault]

\* ------------------------------------------------------------ HandleFileReader
INVALID_HANDLE_VALUE == "INVALID_HANDLE_VALUE"

\* The constructor: CreateFileW and GetFileSizeEx both succeed (opened), or
\* one of them fails and the handle is left invalid with mFileSize = -1.
HandleFileReader(f, opened) ==
    [mHandle |-> IF opened THEN "HANDLE" ELSE INVALID_HANDLE_VALUE,
     mFileSize |-> IF opened THEN Len(f) ELSE Wrap(-1),
     mBuffer |-> <<>>,
     mBufferIndex |-> 0,
     mBufferSize |-> 0,
     mBufferDirection |-> "Right"]

isopen(rd) == rd.mHandle /= INVALID_HANDLE_VALUE

\* readnobuffer: io = FALSE is SetFilePointerEx or ReadFile failing.  The
\* distance is a signed LARGE_INTEGER: an index with the top bit set is a
\* negative seek, which SetFilePointerEx refuses.  ReadFile succeeds with as
\* many bytes as the file holds from index on (the count is ignored); a
\* request reaches past the end of the file only when index + size wrapped.
\* attempted: a system call was made.
readnobuffer(rd, f, index, size, io) ==
    IF ~isopen(rd)
    THEN [ok |-> FALSE, data |-> <<>>, attempted |-> FALSE]
    ELSE IF index >= W \div 2 \/ ~io
    THEN [ok |-> FALSE, data |-> <<>>, attempted |-> TRUE]
    ELSE [ok |-> TRUE,
          data |-> SubSeq(f, index + 1, Min(index + size, Len(f))),
          attempted |-> TRUE]

\* std::vector<char>::resize: truncates, or appends value-initialised chars.
resize(buf, n) ==
    IF n <= Len(buf) THEN SubSeq(buf, 1, n) ELSE buf \o Zeros(n - Len(buf))

IoOf(r) == IF ~r.attempted THEN "none" ELSE IF r.ok THEN "ok" ELSE "fail"

\* The range check of read.
OutOfRange(rd, index, size) == Wrap(index + size) > rd.mFileSize

\* The test that decides a refill.
BufferMiss(rd, index, size) ==
    \/ index < rd.mBufferIndex
    \/ Wrap(index + size) > Wrap(rd.mBufferIndex + Len(rd.mBuffer))

\* The reader after a refill for a request at index.
Refill(rd, f, index, io) ==
    LET bufferSize == Min(rd.mBufferSize, Wrap(rd.mFileSize - index))
        resized == resize(rd.mBuffer, bufferSize)
        fill == readnobuffer(rd, f, index, bufferSize, io)
        got == IF fill.ok
               THEN fill.data \o SubSeq(resized, Len(fill.data) + 1, Len(resized))
               ELSE resized
    IN [rd |-> [rd EXCEPT !.mBuffer = got, !.mBufferIndex = index],
        fill |-> fill]

\* The copy out of the cache; fault "oob" when the bytes copied are not all
\* inside mBuffer (undefined behaviour).
CopyFromBuffer(rd, index, size) ==
    LET off == Wrap(index - rd.mBufferIndex)
    IN IF off + size <= Len(rd.mBuffer)
       THEN [out |-> SubSeq(rd.mBuffer, off + 1, off + size), fault |-> "none"]
       ELSE [out |-> <<>>, fault |-> "oob"]

\* HandleFileReader::read.  out: the bytes written to dest.
read(rd, f, index, size, io) ==
    IF OutOfRange(rd, index, size)
    THEN [ok |-> FALSE, out |-> <<>>, rd |-> rd, io |-> "none",
          path |-> "reject", fault |-> "none"]
    ELSE IF size > rd.mBufferSize
    THEN LET r == readnobuffer(rd, f, index, size, io)
         IN [ok |-> r.ok, out |-> r.data, rd |-> rd, io |-> IoOf(r),
             path |-> "direct", fault |-> "none"]
    ELSE IF BufferMiss(rd, index, size)
    THEN LET n == Refill(rd, f, index, io)
             c == CopyFromBuffer(n.rd, index, size)
         IN IF ~n.fill.ok
            THEN [ok |-> FALSE, out |-> <<>>, rd |-> n.rd, io |-> IoOf(n.fill),
                  path |-> "refill", fault |-> "none"]
            ELSE [ok |-> TRUE, out |-> c.out, rd |-> n.rd, io |-> "ok",
                  path |-> "refill", fault |-> c.fault]
    ELSE LET c == CopyFromBuffer(rd, index, size)
         IN [ok |-> TRUE, out |-> c.out, rd |-> rd, io |-> "none",
             path |-> "cache", fault |-> c.fault]

setbuffersize(rd, size) ==
    [rd EXCEPT !.mBufferSize = Min(size, rd.mFileSize)]

setbufferdirection(rd, direction) ==
    [rd EXCEPT !.mBufferDirection = direction]

\* ------------------------------------------------------------ FileLines
\* FileLines::isopen: mReader && mReader->isopen().
FileLinesIsOpen(reader) == reader /= <<>> /\ isopen(reader[1])

\* A flush that forgets the test of curSize.
FlushLastAlways(lines, curIndex, curSize) == Append(lines, curIndex)

\* The flush of the last, unterminated line after the scan.
FlushLast(lines, curIndex, curSize) ==
    IF curSize > 0 THEN Append(lines, curIndex) ELSE lines

\* The sentinel pushed last.
PushSentinel(lines, filesize) == Append(lines, Wrap(filesize + 1))

\* The scan loop of parse from byte i on.  nio counts the system calls made so
\* far by this parse; the faultAt-th of them fails (0: none does).
RECURSIVE ParseLoop(_, _, _, _, _, _, _, _)
ParseLoop(f, rd, lines, i, curIndex, curSize, nio, faultAt) ==
    IF i >= rd.mFileSize
    THEN [ok |-> TRUE, rd |-> rd, nio |-> nio, fault |-> "none",
          lines |-> PushSentinel(FlushLast(lines, curIndex, curSize), rd.mFileSize)]
    ELSE LET r == read(rd, f, i, 1, nio + 1 /= faultAt)
             n == IF r.io = "none" THEN nio ELSE nio + 1
         IN IF ~r.ok
            THEN [ok |-> FALSE, rd |-> r.rd, nio |-> n, fault |-> "none",
                  lines |-> lines]
            ELSE IF r.fault /= "none" \/ r.out = <<>>
            THEN [ok |-> FALSE, rd |-> r.rd, nio |-> n, fault |-> "oob",
                  lines |-> lines]
            ELSE IF r.out[1] = CR
            THEN ParseLoop(f, r.rd, lines, i + 1, curIndex, curSize, n, faultAt)
            ELSE IF r.out[1] = LF
            THEN ParseLoop(f, r.rd, Append(lines, curIndex), i + 1, Wrap(i + 1), 0,
                           n, faultAt)
            ELSE ParseLoop(f, r.rd, lines, i + 1, curIndex, Wrap(curSize + 1), n,
                           faultAt)

\* FileLines::parse on an open reader.
parse(f, rd, lines, faultAt) ==
    ParseLoop(f, setbuffersize(setbufferdirection(rd, "Right"), ParseBufferSize),
              lines, 0, 0, 0, 0, faultAt)

\* FileLines::size.
size(lines) == Wrap(Len(lines) - 1)

RECURSIVE StripTrailingCR(_)
StripTrailingCR(str) ==
    IF str /= <<>> /\ str[Len(str)] = CR
    THEN StripTrailingCR(SubSeq(str, 1, Len(str) - 1))
    ELSE str

\* FileLines::operator[]: readstring resizes the string (a length above
\* max_size throws length_error), reads into it and ignores the result.
GetLine(f, rd, lines, index, io) ==
    LET lineStart == lines[index + 1]
        nextLineStart == lines[index + 2]
        len == Wrap(nextLineStart - lineStart - 1)
        r == read(rd, f, lineStart, len, io)
    IN IF len >= W \div 2
       THEN [str |-> <<>>, rd |-> rd, io |-> "none", fault |-> "length_error"]
       ELSE [str |-> StripTrailingCR(r.out \o Zeros(len - Len(r.out))),
             rd |-> r.rd, io |-> r.io, fault |-> r.fault]

\* ------------------------------------------------------------ SourceView
\* The first and the last column of the table (the enum is declared in
\* SourceView.h; getCellContent lists ColAddr, ColLine, ColCode in order).
ColAddr == 0
ColCode == 2

\* SourceView::isValidIndex; r and c are ints, size_t(r) is the conversion.
isValidIndex(fileLines, lines, r, c) ==
    IF fileLines = "nullptr" THEN FALSE
    ELSE IF c < ColAddr \/ c > ColCode THEN FALSE
    ELSE r >= 0 /\ Wrap(r) < size(lines)

\* A loadFile that keeps the object whatever parse() returned.
AfterParseKept(parseOk) == "FileLines"

\* What loadFile leaves in mFileLines once parse() has returned.
AfterParse(parseOk) == IF parseOk THEN "FileLines" ELSE "nullptr"

\* What loadFile leaves in mFileLines once open() has run.
AfterOpen(reader) == IF FileLinesIsOpen(reader) THEN "FileLines" ELSE "nullptr"

\* ------------------------------------------------------------ actions
NoArgs(op, ok) == Ret(op, 0, 0, ok, <<>>, "none", "none", "none")

\* The reader on its own: a HandleFileReader whose constructor opened the
\* file (on a reader that is not open every read fails, see readnobuffer).
InitReader ==
    /\ file \in Files
    /\ mReader = <<HandleFileReader(file, TRUE)>>
    /\ mSourcePath = ""
    /\ mFileLines = "nullptr"
    /\ mLines = <<>>
    /\ parses = 0
    /\ parsed = "never"
    /\ ioFaults = 0
    /\ ret = NoArgs("new", TRUE)

SetBufferSize(n) ==
    /\ mReader' = <<setbuffersize(mReader[1], n)>>
    /\ ret' = Ret("setbuffersize", 0, n, TRUE, <<>>, "none", "none", "none")
    /\ UNCHANGED <<file, mSourcePath, mFileLines, mLines, parses, parsed, ioFaults>>

\* read(dest, index, size).  A copy that leaves mBuffer is undefined
\* behaviour: dest then holds any bytes.  io matters only to a call that
\* reaches the file.
Read(index, n, io) ==
    \E r \in {read(mReader[1], file, index, n, io)} :
       /\ io \/ (r.io /= "none" /\ ioFaults < MaxIoFaults)
       /\ mReader' = <<r.rd>>
       /\ ioFaults' = IF io THEN ioFaults ELSE ioFaults + 1
       /\ \E junk \in IF r.fault = "oob" THEN [1 .. n -> JunkByte] ELSE {r.out} :
              ret' = Ret("read", index, n, r.ok, junk, r.io, r.path, r.fault)
       /\ UNCHANGED <<file, mSourcePath, mFileLines, mLines, parses, parsed>>

\* The offsets, lengths and buffer sizes tried: those up to the length of the
\* longest file, and the top of the range (where index + size wraps).
Args == (0 .. MaxFileLen) \cup {W - 1}

NextReader ==
    \/ \E n \in Args : SetBufferSize(n)
    \/ \E index \in Args, n \in Args, io \in BOOLEAN : Read(index, n, io)

SpecReader == InitReader /\ [][NextReader]_vars

\* The line index on its own: a FileLines object, nothing opened yet.
InitLines ==
    /\ file \in Files
    /\ mReader = <<>>
    /\ mSourcePath = ""
    /\ mFileLines = "FileLines"
    /\ mLines = <<>>
    /\ parses = 0
    /\ parsed = "never"
    /\ ioFaults = 0
    /\ ret = NoArgs("new", TRUE)

Open(opened) ==
    /\ IF FileLinesIsOpen(mReader)
       THEN /\ ret' = NoArgs("open", FALSE)
            /\ UNCHANGED <<mReader, ioFaults>>
       ELSE /\ mReader' = <<HandleFileReader(file, opened)>>
            /\ ioFaults' = 0
            /\ ret' = NoArgs("open", opened)
    /\ UNCHANGED <<file, mSourcePath, mFileLines, mLines, parses, parsed>>

Parse(faultAt) ==
    /\ parses < MaxParses
    /\ IF ~FileLinesIsOpen(mReader)
       THEN /\ ret' = NoArgs("parse", FALSE)
            /\ parsed' = "failed"
            /\ UNCHANGED <<mReader, mLines, parses, ioFaults>>
       ELSE \E p \in {parse(file, mReader[1], mLines, faultAt)} :
            LET failed == faultAt /= 0 /\ p.nio >= faultAt
            IN /\ failed => ioFaults < MaxIoFaults
               /\ mReader' = <<p.rd>>
               /\ mLines' = p.lines
               /\ parses' = parses + 1
               /\ parsed' = IF p.ok THEN "ok" ELSE "failed"
               /\ ioFaults' = IF failed THEN ioFaults + 1 ELSE ioFaults
               /\ ret' = Ret("parse", 0, 0, p.ok, <<>>,
                             IF p.nio = 0 THEN "none" ELSE IF p.ok THEN "ok" ELSE "fail",
                             "none", p.fault)
    /\ UNCHANGED <<file, mSourcePath, mFileLines>>

\* operator[] under its contract: index < size() of a table that has entries.
Index(index, io) ==
    /\ mReader /= <<>>
    /\ mLines /= <<>>
    /\ index < size(mLines)
    /\ \E g \in {GetLine(file, mReader[1], mLines, index, io)} :
          /\ io \/ (g.io /= "none" /\ ioFaults < MaxIoFaults)
          /\ mReader' = <<g.rd>>
          /\ ioFaults' = IF io THEN ioFaults ELSE ioFaults + 1
          /\ ret' = Ret("operator[]", index, 0, TRUE, g.str, g.io, "none", g.fault)
    /\ UNCHANGED <<file, mSourcePath, mFileLines, mLines, parses, parsed>>

NextLines ==
    \/ \E opened \in BOOLEAN : Open(opened)
    \/ \E faultAt \in 0 .. MaxFileLen : Parse(faultAt)
    \/ \E index \in 0 .. MaxParses * (MaxFileLen + 1), io \in BOOLEAN : Index(index, io)

SpecLines == InitLines /\ [][NextLines]_vars

\* The view before its constructor has called loadFile.
InitView ==
    /\ file \in Files
    /\ mSourcePath \in {"", "main.c"}
    /\ mFileLines = "nullptr"
    /\ mReader = <<>>
    /\ mLines = <<>>
    /\ parses = 0
    /\ parsed = "never"
    /\ ioFaults = 0
    /\ ret = NoArgs("new", TRUE)

\* SourceView::loadFile: a fresh FileLines, open, parse; the object is deleted
\* when either fails.  ret.index: the system calls parse made.
LoadFile(opened, faultAt) ==
    IF mSourcePath = ""
    THEN /\ ret' = NoArgs("loadFile", FALSE)
         /\ UNCHANGED <<file, mSourcePath, mFileLines, mLines, mReader, parses,
                        parsed, ioFaults>>
    ELSE \E p \in {parse(file, HandleFileReader(file, opened), <<>>, faultAt)} :
         LET reader == <<HandleFileReader(file, opened)>>
             failed == faultAt /= 0 /\ p.nio >= faultAt
             final == IF AfterOpen(reader) = "nullptr" THEN "nullptr"
                      ELSE AfterParse(p.ok)
         IN /\ mFileLines' = final
            /\ IF final = "nullptr"
               THEN /\ mReader' = <<>>
                    /\ mLines' = <<>>
                    /\ parses' = 0
                    /\ parsed' = "never"
                    /\ ioFaults' = 0
               ELSE /\ mReader' = <<p.rd>>
                    /\ mLines' = p.lines
                    /\ parses' = 1
                    /\ parsed' = IF p.ok THEN "ok" ELSE "failed"
                    /\ ioFaults' = IF failed THEN 1 ELSE 0
            /\ ret' = IF AfterOpen(reader) = "nullptr"
                      THEN NoArgs("loadFile", FALSE)
                      ELSE Ret("loadFile", p.nio, 0, p.ok, <<>>,
                               IF p.nio = 0 THEN "none"
                               ELSE IF p.ok THEN "ok" ELSE "fail",
                               "none", p.fault)
            /\ UNCHANGED <<file, mSourcePath>>

IsValidIndex(r, c) ==
    /\ ret' = Ret("isValidIndex", r, c, isValidIndex(mFileLines, mLines, r, c),
                  <<>>, "none", "none", "none")
    /\ UNCHANGED <<file, mSourcePath, mFileLines, mLines, mReader, parses, parsed,
                   ioFaults>>

\* prepareData's parseLine for a row of the table (loadFile sets the row count
\* to mFileLines->size()); nothing happens without mFileLines.  ret.out is
\* the line before its tabs are expanded (no file here holds a tab).
ParseLine(index, io) ==
    /\ mFileLines /= "nullptr"
    /\ index < size(mLines)
    /\ \E g \in {GetLine(file, mReader[1], mLines, index, io)} :
          /\ io \/ (g.io /= "none" /\ ioFaults < MaxIoFaults)
          /\ mReader' = <<g.rd>>
          /\ ioFaults' = IF io THEN ioFaults ELSE ioFaults + 1
          /\ ret' = Ret("parseLine", index, 0, TRUE, g.str, g.io, "none", g.fault)
    /\ UNCHANGED <<file, mSourcePath, mFileLines, mLines, parses, parsed>>

NextView ==
    \/ \E opened \in BOOLEAN, faultAt \in 0 .. MaxFileLen : LoadFile(opened, faultAt)
    \/ \E r \in -1 .. MaxFileLen + 1, c \in -1 .. 3 : IsValidIndex(r, c)
    \/ \E index \in 0 .. MaxFileLen, io \in BOOLEAN : ParseLine(index, io)

SpecView == InitView /\ [][NextView]_vars

\* ------------------------------------------------------------ reference notions
\* What the claims speak of, stated on the file's bytes alone.
CountLF(f) == Cardinality({k \in 1 .. Len(f) : f[k] = LF})

\* The file ends with an unterminated line that has a byte other than CR.
HasFinalLine(f) ==
    \E k \in 1 .. Len(f) :
        /\ f[k] \notin {LF, CR}
        /\ \A j \in k .. Len(f) : f[j] /= LF

LineCount(f) == CountLF(f) + (IF HasFinalLine(f) THEN 1 ELSE 0)

NotCR(b) == b /= CR
StripCR(str) == SelectSeq(str, NotCR)

\* The table is complete: strictly increasing before the sentinel, the
\* sentinel last, one entry per line.
TableComplete(lines, f) ==
    /\ Len(lines) = LineCount(f) + 1
    /\ lines[Len(lines)] = Len(f) + 1
    /\ \A i \in 1 .. Len(lines) - 2 : lines[i] < lines[i + 1]

\* A first parse() of the object has returned true.
Parsed == parsed = "ok" /\ parses = 1

\* ------------------------------------------------------------ FileLines claims
\* C1: after open and a successful parse, size() is the number of line feeds,
\* plus one if the file ends with a non-empty (some byte other than CR, which
\* parse never counts), unterminated last line; zero for the empty file.
C1_LineCount == Parsed => size(mLines) = LineCount(file)

\* C1's case: a parsed file with one line feed, whose bytes after the line
\* feed are only a carriage return: one line.
C1_Witness == Parsed /\ file = <<97, LF, CR>> /\ size(mLines) = 1

OnlyLineFeeds(f) == f /= <<>> /\ \A k \in 1 .. Len(f) : f[k] = LF

\* C2: for a file of n >= 1 line feeds and nothing else, after a successful
\* parse size() is n and every line operator[] returns, the last included, is
\* the empty string.
C2_AllLinesEmpty ==
    (Parsed /\ OnlyLineFeeds(file)) =>
        /\ size(mLines) = Len(file)
        /\ (ret.op = "operator[]" /\ ret.io /= "fail") => ret.out = <<>>

\* The lines 0 .. size() - 1 as operator[] returns them one after the other,
\* no system call failing.
RECURSIVE LinesFrom(_, _, _, _)
LinesFrom(f, rd, lines, i) ==
    IF i >= size(lines) THEN <<>>
    ELSE LET g == GetLine(f, rd, lines, i, TRUE)
         IN <<g.str>> \o LinesFrom(f, g.rd, lines, i + 1)

\* The lines with a line feed between them, and with one after each.
RECURSIVE JoinBetween(_)
JoinBetween(ls) ==
    IF ls = <<>> THEN <<>>
    ELSE IF Len(ls) = 1 THEN ls[1]
    ELSE ls[1] \o <<LF>> \o JoinBetween(Tail(ls))

RECURSIVE JoinAfter(_)
JoinAfter(ls) ==
    IF ls = <<>> THEN <<>> ELSE ls[1] \o <<LF>> \o JoinAfter(Tail(ls))

\* C3: after a successful parse, the lines joined with line feeds (between
\* them, or one after each) are the file without its carriage returns.
C3_RoundTrip ==
    Parsed =>
        LET ls == LinesFrom(file, mReader[1], mLines, 0)
        IN \/ JoinBetween(ls) = StripCR(file)
           \/ JoinAfter(ls) = StripCR(file)

\* C6: a carriage return never ends a line in parse (the count is that of the
\* line feeds), and no line operator[] returns holds a carriage return.
C6_NoCarriageReturn ==
    Parsed =>
        /\ size(mLines) = LineCount(file)
        /\ ret.op = "operator[]" => \A k \in 1 .. Len(ret.out) : ret.out[k] /= CR

\* C7: whenever the most recent parse() returned true (no system call having
\* failed), the table is strictly increasing before the sentinel, ends with
\* the sentinel fileSize + 1 and has one entry per line plus one.
C7_TableComplete == (parsed = "ok" /\ ioFaults = 0) => TableComplete(mLines, file)

\* ------------------------------------------------------------ HandleFileReader claims
\* An unbuffered positioned read: the range check, then readnobuffer.
Unbuffered(f, index, n) ==
    IF Wrap(index + n) > Len(f)
    THEN [ok |-> FALSE, data |-> <<>>, attempted |-> FALSE]
    ELSE readnobuffer(HandleFileReader(f, TRUE), f, index, n, TRUE)

\* C4: whatever setbuffersize and read calls came before, no system call
\* having failed, a read returns the flag and the bytes of an unbuffered
\* positioned read of the same offset and length.
C4_SameAsUnbuffered ==
    (ret.op = "read" /\ ioFaults = 0) =>
        LET u == Unbuffered(file, ret.index, ret.size)
        IN ret.ok = u.ok /\ (ret.ok => ret.out = u.data)

\* C5: a read with offset + length > size() returns false, makes no system
\* call and leaves the buffer window as it was, wrapping sums included.
C5_RangeRejected ==
    [][(ret'.op = "read" /\ ret'.index + ret'.size > mReader[1].mFileSize) =>
           /\ ~ret'.ok
           /\ ret'.io = "none"
           /\ mReader'[1].mBuffer = mReader[1].mBuffer
           /\ mReader'[1].mBufferIndex = mReader[1].mBufferIndex]_vars

\* C9: the window lies inside the file; a refill for a request at offset puts
\* it at offset with length min(bufferSize, fileSize - offset); a read that
\* copies from the cache copies from inside the window.
C9_WindowInBounds ==
    LET rd == mReader[1]
    IN /\ rd.mBufferIndex + Len(rd.mBuffer) <= rd.mFileSize
       /\ (ret.op = "read" /\ ret.path = "refill") =>
              /\ rd.mBufferIndex = ret.index
              /\ Len(rd.mBuffer) = Min(rd.mBufferSize, rd.mFileSize - ret.index)
       /\ (ret.op = "read" /\ ret.ok /\ ret.path \in {"refill", "cache"}) =>
              /\ ret.fault = "none"
              /\ rd.mBufferIndex <= ret.index
              /\ ret.index + ret.size <= rd.mBufferIndex + Len(rd.mBuffer)

\* C10: system calls failing or not, a read of a range of the file that
\* returns true delivers the file's bytes of that range, also when an earlier
\* refill of the window has failed.
C10_TrueMeansFileBytes ==
    (ret.op = "read" /\ ret.ok /\ ret.index + ret.size <= Len(file)) =>
        ret.out = SubSeq(file, ret.index + 1, ret.index + ret.size)

\* ------------------------------------------------------------ SourceView claims
\* C8: after every loadFile, mFileLines is set only if open and parse both
\* returned true, so its table is complete; isValidIndex holds only for rows
\* 0 <= r < the line count, and operator[] runs only on a complete table.
C8_LoadedOnlyIfParsed ==
    /\ mFileLines /= "nullptr" =>
           /\ FileLinesIsOpen(mReader)
           /\ Parsed
           /\ TableComplete(mLines, file)
    /\ (ret.op = "isValidIndex" /\ ret.ok) =>
           /\ mFileLines /= "nullptr"
           /\ 0 <= ret.index /\ ret.index < LineCount(file)
    /\ ret.op = "parseLine" => (TableComplete(mLines, file) /\ ret.fault = "none")

\* C8's case: a loadFile of a file longer than the scan buffer whose second
\* refill failed, mid-parse, and which has left no object behind.
C8_Witness ==
    /\ Len(file) > ParseBufferSize
    /\ ret.op = "loadFile" /\ ret.io = "fail" /\ ret.index = 2 /\ ~ret.ok
    /\ mFileLines = "nullptr"

====
